---- MODULE Spec2Model ----
(***************************************************************************)
(* A model of pooldose.values.instant_values.InstantValues: the per-name   *)
(* read cache over one raw snapshot, the per-kind decoding of raw records, *)
(* and the typed setters set_number / set_switch / set_select, which       *)
(* validate a proposed value, delegate to the request handler's set_value  *)
(* (the only suspension point) and evict the written name on success.      *)
(*                                                                         *)
(* Python values are tagged records.  Numbers are held in hundredths       *)
(* (7.25 is 725), so int and float arithmetic of the source is exact       *)
(* integer arithmetic here; every absMax of the snapshots below is an even *)
(* number of hundredths, so abs_max / 2 is exact as well.                  *)
(***************************************************************************)
EXTENDS Integers, Sequences, FiniteSets, TLC

VARIABLES
    mapping,      \* self._mapping: sequence of [name, a] in dict order
    device_data,  \* self._device_data: full device key -> raw record
    cache,        \* self._cache: logical name -> decoded value
    pending,      \* setters suspended in `await set_value(...)`
    last,         \* the step just taken: operation, inputs, outcome
    reads,        \* history: name -> value of the caller's latest keyed read
                  \* of it since the last successful write of that name
    tracing       \* whether this behaviour keeps the history `reads`

vars == <<mapping, device_data, cache, pending, last, reads, tracing>>

-----------------------------------------------------------------------------
(* Python values *)

NoneV == [t |-> "none"]
BoolV(b) == [t |-> "bool", b |-> b]
IntV(n) == [t |-> "int", n |-> n]
FloatV(n) == [t |-> "float", n |-> n]
StrV(s) == [t |-> "str", s |-> s]
TupleV(items) == [t |-> "tuple", items |-> items]
ListV(items) == [t |-> "list", items |-> items]
DictV(d) == [t |-> "dict", d |-> d]
Raise(e) == [t |-> "raise", e |-> e]

IsRaise(v) == v.t = "raise"

\* isinstance(v, (int, float)); bool is a subclass of int
IsIntOrFloat(v) == v.t \in {"int", "float", "bool"}

\* the numeric value of an int, float or bool, in hundredths
NumOf(v) == IF v.t = "bool" THEN (IF v.b THEN 100 ELSE 0) ELSE v.n

\* bool(v)
Truthy(v) ==
    CASE v.t = "none" -> FALSE
      [] v.t = "bool" -> v.b
      [] v.t \in {"int", "float"} -> v.n # 0
      [] v.t = "str" -> v.s # ""
      [] v.t \in {"tuple", "list"} -> Len(v.items) > 0
      [] v.t = "dict" -> DOMAIN v.d # {}
      [] OTHER -> TRUE

\* a == b
PyEq(a, b) ==
    IF IsIntOrFloat(a) /\ IsIntOrFloat(b) THEN NumOf(a) = NumOf(b) ELSE a = b

\* str(v) of the scalars that occur as `current`
PyStr(v) ==
    CASE v.t = "str" -> v.s
      [] v.t = "none" -> "None"
      [] v.t = "bool" -> (IF v.b THEN "True" ELSE "False")
      [] v.t = "int" -> ToString(v.n \div 100)
      [] v.t = "float" ->
            ToString(v.n \div 100) \o "." \o
            (IF v.n % 10 = 0 THEN ToString((v.n % 100) \div 10)
             ELSE ToString((v.n % 100) \div 10) \o ToString(v.n % 10))
      [] OTHER -> "<object>"

\* a comparison that forgets to fold the case
LowerKeepsCase(s) == s

\* str.lower() on the strings of the snapshots
Lower(s) ==
    CASE s \in {"pH", "PH", "Ph"} -> "ph"
      [] s \in {"UNDEFINED", "Undefined"} -> "undefined"
      [] s = "PH_UNIT" -> "ph_unit"
      [] s = "pH value" -> "ph value"
      [] s = "O" -> "o"
      [] s = "F" -> "f"
      [] s = "C" -> "c"
      [] s = "mV" -> "mv"
      [] OTHER -> s

\* a sentinel test that forgets to fold the case
UpperKeepsCase(s) == s

\* str.upper() on the strings of the snapshots
Upper(s) ==
    CASE s = "o" -> "O"
      [] s = "f" -> "F"
      [] s = "on" -> "ON"
      [] s \in {"number", "Number"} -> "NUMBER"
      [] s \in {"string", "String"} -> "STRING"
      [] OTHER -> s

\* d.get(k, default) on a raw dict
DictGet(raw, k, default) == IF k \in DOMAIN raw.d THEN raw.d[k] ELSE default

-----------------------------------------------------------------------------
(* The mapping table and the raw snapshot *)

prefix == "PDPR1H1HAW100_FW539187_"

MappingKeys == {mapping[i].name : i \in 1..Len(mapping)}

\* self._mapping[name], for name in self._mapping
MappingAt(name) ==
    mapping[CHOOSE i \in 1..Len(mapping) : mapping[i].name = name].a

\* entry.get("options", {}) as the ordered items of the dict
OptionsOf(a) == IF "options" \in DOMAIN a THEN a.options ELSE <<>>

\* entry.get("conversion", {})
ConversionOf(a) == IF "conversion" \in DOMAIN a THEN a.conversion ELSE <<>>

\* str_key in options
InOptions(options, k) == \E i \in 1..Len(options) : options[i][1] = k

\* options.get(str_key)
OptionText(options, k) ==
    options[CHOOSE i \in 1..Len(options) : options[i][1] = k][2]

_find_device_entry(name) ==
    IF name \notin MappingKeys \/ DOMAIN MappingAt(name) = {} THEN NoneV
    ELSE LET attributes == MappingAt(name)
             device_key == IF "key" \in DOMAIN attributes THEN attributes.key ELSE name
             full_device_key == prefix \o device_key
         IN  IF full_device_key \in DOMAIN device_data
             THEN device_data[full_device_key] ELSE NoneV

-----------------------------------------------------------------------------
(* Decoding, by kind *)

\* units[0]
FirstOf(units) ==
    CASE units.t \in {"list", "tuple"} -> units.items[1]
      [] units.t = "dict" -> Raise("KeyError")
      [] OTHER -> Raise("TypeError")

\* a sensor decode that answers none for a raw entry of the wrong shape
SensorValueOrNone(raw_entry, attributes, name) ==
    IF raw_entry.t # "dict" THEN NoneV
    ELSE TupleV(<<DictGet(raw_entry, "current", NoneV), NoneV>>)

_process_sensor_value(raw_entry, attributes, name) ==
    IF raw_entry.t # "dict" THEN TupleV(<<NoneV, NoneV>>)
    ELSE LET current == DictGet(raw_entry, "current", NoneV)
             value == IF current # NoneV /\ "conversion" \in DOMAIN attributes
                         /\ PyStr(current) \in DOMAIN attributes.conversion
                      THEN StrV(attributes.conversion[PyStr(current)])
                      ELSE current
             units == DictGet(raw_entry, "magnitude", ListV(<<StrV("")>>))
         IN  IF ~Truthy(units) THEN TupleV(<<value, NoneV>>)
             ELSE IF IsRaise(FirstOf(units)) THEN FirstOf(units)
             ELSE IF FirstOf(units).t # "str" THEN Raise("AttributeError")
             ELSE IF Lower(FirstOf(units).s) \notin {"undefined", "ph"}
                  THEN TupleV(<<value, FirstOf(units)>>)
                  ELSE TupleV(<<value, NoneV>>)

_process_binary_sensor_value(raw_entry, attributes, name) ==
    IF raw_entry.t # "dict" THEN NoneV
    ELSE LET current == DictGet(raw_entry, "current", NoneV)
             value == IF current # NoneV /\ "conversion" \in DOMAIN attributes
                         /\ PyStr(current) \in DOMAIN attributes.conversion
                      THEN StrV(attributes.conversion[PyStr(current)])
                      ELSE current
         IN  IF value.t = "str" THEN BoolV(Upper(value.s) = "O")
             ELSE BoolV(Truthy(value))

\* a switch decode without the check for a missing current
SwitchValueUnchecked(raw_entry, name) ==
    IF raw_entry.t = "bool" THEN raw_entry
    ELSE IF raw_entry.t # "dict" THEN NoneV
    ELSE LET value == DictGet(raw_entry, "current", NoneV)
         IN  IF value.t = "str" THEN BoolV(Upper(value.s) = "O")
             ELSE BoolV(Truthy(value))

_process_switch_value(raw_entry, name) ==
    IF raw_entry.t = "bool" THEN raw_entry
    ELSE IF raw_entry.t # "dict" THEN NoneV
    ELSE LET value == DictGet(raw_entry, "current", NoneV)
         IN  IF value = NoneV THEN NoneV
             ELSE IF value.t = "str" THEN BoolV(Upper(value.s) = "O")
             ELSE BoolV(Truthy(value))

\* a number decode that splits the range at absMax / 2 for both selectors
NumberValueSplitInHalf(raw_entry, name) ==
    IF raw_entry.t # "dict" THEN TupleV(<<NoneV, NoneV, NoneV, NoneV, NoneV>>)
    ELSE LET attributes == IF name \in MappingKeys THEN MappingAt(name) ELSE <<>>
             value_key == IF "field" \in DOMAIN attributes THEN attributes.field ELSE "current"
             raw_max == DictGet(raw_entry, "absMax", NoneV)
             halved == IF IsIntOrFloat(raw_max) THEN FloatV(NumOf(raw_max) \div 2)
                       ELSE raw_max
         IN  TupleV(<<DictGet(raw_entry, value_key, NoneV), NoneV,
                      IF value_key = "maxT" THEN halved
                      ELSE DictGet(raw_entry, "absMin", NoneV),
                      IF value_key = "minT" THEN halved ELSE raw_max,
                      DictGet(raw_entry, "resolution", NoneV)>>)

_process_number_value(raw_entry, name) ==
    IF raw_entry.t # "dict" THEN TupleV(<<NoneV, NoneV, NoneV, NoneV, NoneV>>)
    ELSE LET attributes == IF name \in MappingKeys THEN MappingAt(name) ELSE <<>>
             value_key == IF "field" \in DOMAIN attributes THEN attributes.field ELSE "current"
             value == DictGet(raw_entry, value_key, NoneV)
             raw_min == DictGet(raw_entry, "absMin", NoneV)
             raw_max == DictGet(raw_entry, "absMax", NoneV)
             resolution == DictGet(raw_entry, "resolution", NoneV)
             abs_max == IF value_key = "minT" /\ IsIntOrFloat(raw_max)
                        THEN FloatV(NumOf(raw_max) \div 2)
                        ELSE raw_max
             abs_min == IF value_key # "minT" /\ value_key = "maxT"
                           /\ IsIntOrFloat(raw_max) /\ IsIntOrFloat(resolution)
                        THEN FloatV(NumOf(raw_max) \div 2 + NumOf(resolution))
                        ELSE raw_min
             units == DictGet(raw_entry, "magnitude", ListV(<<StrV("")>>))
             unit == IF units.t \in {"list", "tuple"} /\ Truthy(units)
                        /\ Lower(PyStr(units.items[1])) \notin {"undefined", "ph"}
                     THEN units.items[1] ELSE NoneV
         IN  TupleV(<<value, unit, abs_min, abs_max, resolution>>)

_process_select_value(raw_entry, attributes) ==
    IF raw_entry.t # "dict" THEN NoneV
    ELSE LET value == DictGet(raw_entry, "current", NoneV)
             options == OptionsOf(attributes)
         IN  IF InOptions(options, PyStr(value))
             THEN LET value_text == OptionText(options, PyStr(value))
                  IN  IF "conversion" \in DOMAIN attributes
                         /\ value_text \in DOMAIN attributes.conversion
                      THEN StrV(attributes.conversion[value_text])
                      ELSE StrV(value_text)
             ELSE IF "conversion" \in DOMAIN attributes
                     /\ PyStr(value) \in DOMAIN attributes.conversion
                  THEN StrV(attributes.conversion[PyStr(value)])
                  ELSE value

\* an except clause without AttributeError
GetValueCaughtNarrow == {"KeyError", "TypeError"}

\* except (KeyError, TypeError, AttributeError): return None
GetValueCaught == {"KeyError", "TypeError", "AttributeError"}

_get_value(name) ==
    IF name \notin MappingKeys \/ DOMAIN MappingAt(name) = {} THEN NoneV
    ELSE LET attributes == MappingAt(name)
             raw_entry == _find_device_entry(name)
             entry_type == IF "type" \in DOMAIN attributes THEN attributes.type ELSE ""
             decoded ==
                CASE entry_type = "sensor" -> _process_sensor_value(raw_entry, attributes, name)
                  [] entry_type = "binary_sensor" -> _process_binary_sensor_value(raw_entry, attributes, name)
                  [] entry_type = "switch" -> _process_switch_value(raw_entry, name)
                  [] entry_type = "number" -> _process_number_value(raw_entry, name)
                  [] entry_type = "select" -> _process_select_value(raw_entry, attributes)
                  [] OTHER -> NoneV
         IN  IF raw_entry = NoneV THEN NoneV
             ELSE IF entry_type = "" THEN NoneV
             ELSE IF IsRaise(decoded) /\ decoded.e \in GetValueCaught THEN NoneV
             ELSE decoded

-----------------------------------------------------------------------------
(* Keyed read through the cache *)

\* dict without one key: self._cache.pop(key, None)
CachePop(c, key) == [k \in DOMAIN c \ {key} |-> c[k]]

\* a keyed read that decodes every time and memoizes nothing
GetItemUncached(c, key) ==
    [value |-> _get_value(key), cache |-> c, decoded |-> TRUE]

\* a keyed read that memoizes whatever it decoded, none included
GetItemCachesAbsent(c, key) ==
    IF key \in DOMAIN c
    THEN [value |-> c[key], cache |-> c, decoded |-> FALSE]
    ELSE [value |-> _get_value(key), cache |-> c @@ (key :> _get_value(key)),
          decoded |-> TRUE]

\* __getitem__ on cache c: the value returned, the cache afterwards, and
\* whether _get_value ran
__getitem__(c, key) ==
    IF key \in DOMAIN c
    THEN [value |-> c[key], cache |-> c, decoded |-> FALSE]
    ELSE LET value == _get_value(key)
         IN  [value |-> value,
              cache |-> IF value # NoneV THEN c @@ (key :> value) ELSE c,
              decoded |-> TRUE]

-----------------------------------------------------------------------------
(* The structured projection *)

\* mapping entries the loop does not skip before the section is created: a
\* truthy type and a raw entry
Sectioned(i) ==
    /\ "type" \in DOMAIN mapping[i].a
    /\ mapping[i].a.type # ""
    /\ _find_device_entry(mapping[i].name) # NoneV

\* whether a decoded value is written into its section
Projects(entry_type, value_data) ==
    CASE value_data = NoneV -> FALSE
      [] entry_type = "sensor" ->
            value_data.t = "tuple" /\ Len(value_data.items) >= 2
      [] entry_type = "number" ->
            value_data.t = "tuple" /\ Len(value_data.items) >= 5
      [] entry_type \in {"binary_sensor", "switch", "select"} -> TRUE
      [] OTHER -> FALSE

\* a row that takes the bounds of a number the wrong way round
ProjectedRowSwapped(entry_type, value_data) ==
    CASE entry_type = "sensor" ->
            [value |-> value_data.items[1], unit |-> value_data.items[2]]
      [] entry_type = "number" ->
            [value |-> value_data.items[1], unit |-> value_data.items[2],
             min |-> value_data.items[4], max |-> value_data.items[3],
             step |-> value_data.items[5]]
      [] OTHER -> [value |-> value_data]

\* the row written for a decoded value
ProjectedRow(entry_type, value_data) ==
    CASE entry_type = "sensor" ->
            [value |-> value_data.items[1], unit |-> value_data.items[2]]
      [] entry_type = "number" ->
            [value |-> value_data.items[1], unit |-> value_data.items[2],
             min |-> value_data.items[3], max |-> value_data.items[4],
             step |-> value_data.items[5]]
      [] OTHER -> [value |-> value_data]

\* structured_data[entry_type]
SectionOf(entry_type) ==
    LET rows == {i \in 1..Len(mapping) :
                    /\ Sectioned(i) /\ mapping[i].a.type = entry_type
                    /\ Projects(entry_type, _get_value(mapping[i].name))}
    IN  [name \in {mapping[i].name : i \in rows} |->
            ProjectedRow(entry_type, _get_value(name))]

to_structured_dict ==
    [entry_type \in {mapping[i].a.type : i \in {j \in 1..Len(mapping) : Sectioned(j)}}
        |-> SectionOf(entry_type)]

-----------------------------------------------------------------------------
(* Setters, up to the await of the request handler *)

\* a setter either returns at once or suspends in set_value(...)
Return(result, c) == [kind |-> "return", result |-> result, cache |-> c]
Await(path, value, value_type, c) ==
    [kind |-> "await", cache |-> c,
     call |-> [path |-> path, value |-> value, type |-> value_type]]

\* 1 / epsilon, epsilon = 1e-9
EpsilonInv == 1000000000

\* a range check that forgets the upper bound
OutOfRangeBelowOnly(min_val, value, max_val) ==
    ~(NumOf(min_val) <= NumOf(value))

\* a range check that forgets the lower bound
OutOfRangeAboveOnly(min_val, value, max_val) ==
    ~(NumOf(value) <= NumOf(max_val))

\* not min_val <= value <= max_val, operands numeric
OutOfRange(min_val, value, max_val) ==
    ~(NumOf(min_val) <= NumOf(value) /\ NumOf(value) <= NumOf(max_val))

\* abs(round(n) - n) > epsilon for n = (value - min_val) / step, step # 0:
\* the distance of n to the nearest whole number is dist / |step|
OffStep(min_val, value, step) ==
    LET s == IF NumOf(step) < 0 THEN -NumOf(step) ELSE NumOf(step)
        r == (NumOf(value) - NumOf(min_val)) % s
        dist == IF r <= s - r THEN r ELSE s - r
    IN  dist > s \div EpsilonInv

\* a sibling lookup that hands on what self[k] returned, tuple or not
FromSiblingWhole(got) == [value |-> got.value, cache |-> got.cache]

\* val[0] if isinstance(val, tuple) else val, for val = self[k]
FromSibling(got) ==
    [value |-> IF got.value.t = "tuple" THEN got.value.items[1] ELSE got.value,
     cache |-> got.cache]

\* a fallback that stops at the threshold field of the raw record
FromRawEntryFieldOnly(raw_entry, corresponding_field) ==
    IF raw_entry = NoneV THEN NoneV
    ELSE IF raw_entry.t = "bool" THEN Raise("TypeError")
    ELSE IF raw_entry.t # "dict" THEN Raise("AttributeError")
    ELSE DictGet(raw_entry, corresponding_field, NoneV)

\* the fallback of _get_corresponding_value on the raw record of `name`
FromRawEntry(raw_entry, corresponding_field) ==
    IF raw_entry = NoneV THEN NoneV
    ELSE IF raw_entry.t = "bool" THEN Raise("TypeError")
    ELSE IF raw_entry.t # "dict" THEN Raise("AttributeError")
    ELSE IF corresponding_field \in DOMAIN raw_entry.d
         THEN raw_entry.d[corresponding_field]
    ELSE IF corresponding_field = "minT"
         THEN DictGet(raw_entry, "absMin", NoneV)
         ELSE DictGet(raw_entry, "absMax", NoneV)

\* the mapping entries the loop of _get_corresponding_value accepts
SiblingEntries(corresponding_field, attributes) ==
    {i \in 1..Len(mapping) :
        /\ "type" \in DOMAIN mapping[i].a /\ mapping[i].a.type = "number"
        /\ "field" \in DOMAIN mapping[i].a /\ mapping[i].a.field = corresponding_field
        /\ ("key" \in DOMAIN mapping[i].a) = ("key" \in DOMAIN attributes)
        /\ ("key" \in DOMAIN attributes => mapping[i].a.key = attributes.key)}

\* the first of them in dict order
FirstIndex(found) == CHOOSE i \in found : \A j \in found : i <= j

CorrespondingIn(c, name, corresponding_field, found) ==
    IF found # {}
    THEN FromSibling(__getitem__(c, mapping[FirstIndex(found)].name))
    ELSE [value |-> FromRawEntry(_find_device_entry(name), corresponding_field),
          cache |-> c]

_get_corresponding_value(c, name, field, attributes) ==
    CorrespondingIn(c, name, IF field = "minT" THEN "maxT" ELSE "minT",
        SiblingEntries(IF field = "minT" THEN "maxT" ELSE "minT", attributes))

\* the step check of set_number: it applies to float values only
StepChecked(value, step, min_val) ==
    value.t = "float" /\ Truthy(step) /\ min_val # NoneV

\* a validation that rejects whatever it cannot check against both bounds
RejectedUnlessBounded(value, min_val, max_val, step) ==
    IF min_val = NoneV \/ max_val = NoneV THEN TRUE
    ELSE IF ~IsIntOrFloat(min_val) \/ ~IsIntOrFloat(value) \/ ~IsIntOrFloat(max_val)
    THEN TRUE
    ELSE IF OutOfRange(min_val, value, max_val) THEN TRUE
    ELSE IF StepChecked(value, step, min_val) /\ ~IsIntOrFloat(step) THEN TRUE
    ELSE StepChecked(value, step, min_val) /\ OffStep(min_val, value, step)

\* the range and step validation of set_number; a TypeError raised by a
\* comparison or by the arithmetic is caught and rejects as well
Rejected(value, min_val, max_val, step) ==
    IF min_val # NoneV /\ max_val # NoneV
       /\ (~IsIntOrFloat(min_val) \/ ~IsIntOrFloat(value) \/ ~IsIntOrFloat(max_val))
    THEN TRUE
    ELSE IF min_val # NoneV /\ max_val # NoneV /\ OutOfRange(min_val, value, max_val)
    THEN TRUE
    ELSE IF StepChecked(value, step, min_val)
            /\ (~IsIntOrFloat(min_val) \/ ~IsIntOrFloat(step))
    THEN TRUE
    ELSE StepChecked(value, step, min_val) /\ OffStep(min_val, value, step)

\* a paired write that puts the written value first whatever its selector
SendPairWrittenFirst(full_key, value, field, corr) ==
    IF IsRaise(corr.value) THEN Return(BoolV(FALSE), corr.cache)
    ELSE IF value = NoneV \/ corr.value = NoneV THEN Return(BoolV(FALSE), corr.cache)
    ELSE Await(full_key, ListV(<<value, corr.value>>), "NUMBER", corr.cache)

\* the paired write: both bounds in (min, max) order, in one call
SendPair(full_key, value, field, corr) ==
    IF IsRaise(corr.value) THEN Return(BoolV(FALSE), corr.cache)
    ELSE IF value = NoneV \/ corr.value = NoneV THEN Return(BoolV(FALSE), corr.cache)
    ELSE Await(full_key,
               IF field = "minT" THEN ListV(<<value, corr.value>>)
               ELSE ListV(<<corr.value, value>>),
               "NUMBER", corr.cache)

Send(c, key, value, attributes, full_key) ==
    IF "field" \in DOMAIN attributes /\ attributes.field \in {"minT", "maxT"}
    THEN SendPair(full_key, value, attributes.field,
                  _get_corresponding_value(c, key, attributes.field, attributes))
    ELSE IF ~IsIntOrFloat(value) THEN Return(BoolV(FALSE), c)
    ELSE Await(full_key, value, "NUMBER", c)

FullKey(attributes, key) ==
    prefix \o (IF "key" \in DOMAIN attributes THEN attributes.key ELSE key)

\* `_, _, min_val, max_val, step = current_info` raises TypeError or
\* ValueError, both caught, on anything but a 5-tuple
Validate(key, value, got) ==
    IF got.value = NoneV THEN Return(BoolV(FALSE), got.cache)
    ELSE IF got.value.t # "tuple" THEN Return(BoolV(FALSE), got.cache)
    ELSE IF Len(got.value.items) # 5 THEN Return(BoolV(FALSE), got.cache)
    ELSE IF Rejected(value, got.value.items[3], got.value.items[4], got.value.items[5])
         THEN Return(BoolV(FALSE), got.cache)
    ELSE Send(got.cache, key, value, MappingAt(key), FullKey(MappingAt(key), key))

\* a kind check that only looks the name up
IsKindAnyType(key, kind) == key \in MappingKeys

\* key in self._mapping and self._mapping[key].get("type") == kind
IsKind(key, kind) ==
    /\ key \in MappingKeys
    /\ "type" \in DOMAIN MappingAt(key)
    /\ MappingAt(key).type = kind

set_number(c, key, value) ==
    IF ~IsKind(key, "number") THEN Return(BoolV(FALSE), c)
    ELSE Validate(key, value, __getitem__(c, key))

\* a switch setter that takes any value by its truth value
set_switch_truthy(c, key, value) ==
    IF ~IsKind(key, "switch") THEN Return(BoolV(FALSE), c)
    ELSE Await(FullKey(MappingAt(key), key), StrV(IF Truthy(value) THEN "O" ELSE "F"),
               "STRING", c)

set_switch(c, key, value) ==
    IF ~IsKind(key, "switch") THEN Return(BoolV(FALSE), c)
    ELSE IF value.t # "bool" THEN Return(BoolV(FALSE), c)
    ELSE Await(FullKey(MappingAt(key), key), StrV(IF value.b THEN "O" ELSE "F"),
               "STRING", c)

\* int(option_key): the option keys that are decimal numerals
IsNumeral(k) == k \in {"0", "1", "2", "3"}
IntOf(k) == CASE k = "0" -> 0 [] k = "1" -> 1 [] k = "2" -> 2 [] k = "3" -> 3

\* a membership set of the raw option labels, conversion ignored
valid_values_raw(options, conversion) ==
    {options[i][2] : i \in 1..Len(options)}

\* [conversion[t] if t in conversion else t for _, t in options.items()]
valid_values(options, conversion) ==
    {IF options[i][2] \in DOMAIN conversion THEN conversion[options[i][2]] ELSE options[i][2]
        : i \in 1..Len(options)}

\* the options whose converted label is value, else those whose label is
ByConversion(options, conversion, s) ==
    {i \in 1..Len(options) :
        options[i][2] \in DOMAIN conversion /\ conversion[options[i][2]] = s}
ByText(options, s) == {i \in 1..Len(options) : options[i][2] = s}

\* int(option_key) of the first hit; ValueError on a non-numeral is caught
SendIndex(c, full_key, options, hits) ==
    IF hits = {} THEN Return(BoolV(FALSE), c)
    ELSE IF ~IsNumeral(options[FirstIndex(hits)][1]) THEN Return(BoolV(FALSE), c)
    ELSE Await(full_key, IntV(100 * IntOf(options[FirstIndex(hits)][1])), "NUMBER", c)

device_value(c, full_key, value, mapping_entry, options, conversion) ==
    IF "conversion" \in DOMAIN mapping_entry /\ "options" \in DOMAIN mapping_entry
    THEN SendIndex(c, full_key, options,
            IF ByConversion(options, conversion, value.s) # {}
            THEN ByConversion(options, conversion, value.s)
            ELSE ByText(options, value.s))
    ELSE Await(full_key, value, "NUMBER", c)

SelectEntry(c, key, value, mapping_entry) ==
    IF value.t # "str"
       \/ value.s \notin valid_values(OptionsOf(mapping_entry), ConversionOf(mapping_entry))
    THEN Return(BoolV(FALSE), c)
    ELSE device_value(c, FullKey(mapping_entry, key), value, mapping_entry,
                      OptionsOf(mapping_entry), ConversionOf(mapping_entry))

set_select(c, key, value) ==
    IF ~IsKind(key, "select") THEN Return(BoolV(FALSE), c)
    ELSE SelectEntry(c, key, value, MappingAt(key))

-----------------------------------------------------------------------------
(* Mapping tables and raw snapshots a view is built from *)

Entry(name, a) == [name |-> name, a |-> a]

\* the fixture of tests/test_instant_values.py: one number, switch, select
MappingFixture == <<
    Entry("target_ph", [type |-> "number", key |-> "w_1eomph456"]),
    Entry("pump_switch", [type |-> "switch", key |-> "w_1switch123"]),
    Entry("water_unit", [type |-> "select", key |-> "w_1select456",
        options |-> << <<"0", "COMBO_M_">>, <<"1", "COMBO_LITER">> >>,
        conversion |-> [COMBO_M_ |-> "m3", COMBO_LITER |-> "L"]]) >>

DataFixture ==
    (prefix \o "w_1eomph456" :> DictV([current |-> FloatV(700),
                                          magnitude |-> ListV(<<StrV("ph")>>),
                                          absMin |-> FloatV(600), absMax |-> FloatV(800),
                                          resolution |-> FloatV(10)]))
    @@ (prefix \o "w_1switch123" :> DictV([current |-> StrV("O")]))
    @@ (prefix \o "w_1select456" :> DictV([current |-> StrV("0")]))

\* a lower/upper setpoint pair over one raw record, and an unrelated sensor
MappingPaired == <<
    Entry("ph", [type |-> "sensor", key |-> "w_1eomog123"]),
    Entry("ofa_ph_lower", [type |-> "number", key |-> "w_1eo1ttmft", field |-> "minT"]),
    Entry("ofa_ph_upper", [type |-> "number", key |-> "w_1eo1ttmft", field |-> "maxT"]) >>

DataPaired ==
    (prefix \o "w_1eomog123" :> DictV([current |-> FloatV(720),
                                       magnitude |-> ListV(<<StrV("pH"), StrV("PH_UNIT")>>)]))
    @@ (prefix \o "w_1eo1ttmft" :> DictV([current |-> FloatV(700),
                                          minT |-> FloatV(620), maxT |-> FloatV(810),
                                          absMin |-> FloatV(0), absMax |-> FloatV(1400),
                                          resolution |-> FloatV(10),
                                          magnitude |-> ListV(<<StrV("pH")>>)]))

\* an integer setpoint on a grid of 2, a select with options only, and a
\* select without options
MappingInteger == <<
    Entry("orp_target", [type |-> "number", key |-> "w_1eo1s18s8"]),
    Entry("flow_unit", [type |-> "select", key |-> "w_1eklinki6",
        options |-> << <<"0", "L">>, <<"1", "m3">> >>]),
    Entry("no_options", [type |-> "select", key |-> "w_1eklinki6"]) >>

DataInteger ==
    (prefix \o "w_1eo1s18s8" :> DictV([current |-> IntV(400),
                                       magnitude |-> ListV(<<StrV("mV")>>),
                                       absMin |-> IntV(0), absMax |-> IntV(1000),
                                       resolution |-> IntV(200)]))
    @@ (prefix \o "w_1eklinki6" :> DictV([current |-> StrV("1")]))

Views == {
    [mapping |-> MappingFixture, device_data |-> DataFixture],
    [mapping |-> MappingPaired, device_data |-> DataPaired],
    [mapping |-> MappingInteger, device_data |-> DataInteger] }

\* one mapping entry over one raw record, for every kind and raw shape
Missing == [t |-> "missing"]

\* a raw dict of the given fields, the Missing ones left out
RawDict(fields) ==
    DictV([k \in {f \in DOMAIN fields : fields[f] # Missing} |-> fields[k]])

Currents == {Missing, StrV("O"), StrV("o"), StrV("F"), StrV("on"), StrV("1"),
             BoolV(TRUE), BoolV(FALSE), IntV(100), IntV(0), FloatV(720)}

Magnitudes == {
    ListV(<<StrV("pH"), StrV("PH_UNIT")>>), ListV(<<StrV("PH")>>),
    ListV(<<StrV("ph"), StrV("C")>>), ListV(<<StrV("pH value")>>),
    ListV(<<StrV("C")>>), ListV(<<StrV("mV"), StrV("pH")>>),
    ListV(<<StrV("UNDEFINED")>>), ListV(<<StrV("undefined")>>),
    ListV(<<>>), ListV(<<StrV("")>>), ListV(<<IntV(500)>>),
    DictV([a |-> StrV("b")]), IntV(500) }

\* setpoint records: bounds as floats, as ints, partly missing, not numeric,
\* with a resolution of zero
BoundFields == {
    [absMin |-> FloatV(0), absMax |-> FloatV(1400), resolution |-> FloatV(10)],
    [absMin |-> IntV(0), absMax |-> IntV(1400), resolution |-> IntV(100)],
    [absMin |-> FloatV(600), absMax |-> Missing, resolution |-> FloatV(10)],
    [absMin |-> Missing, absMax |-> FloatV(1400), resolution |-> Missing],
    [absMin |-> FloatV(0), absMax |-> StrV("14"), resolution |-> FloatV(10)],
    [absMin |-> FloatV(600), absMax |-> FloatV(800), resolution |-> FloatV(0)] }

RawEntries ==
    {RawDict([current |-> c, magnitude |-> Missing]) : c \in Currents}
    \cup {RawDict([current |-> FloatV(720), magnitude |-> m]) : m \in Magnitudes}
    \cup {RawDict([current |-> FloatV(700), minT |-> FloatV(620), maxT |-> FloatV(810),
                   magnitude |-> ListV(<<StrV("pH")>>),
                   absMin |-> b.absMin, absMax |-> b.absMax,
                   resolution |-> b.resolution]) : b \in BoundFields}
    \cup {RawDict([current |-> FloatV(700), absMin |-> FloatV(600),
                   absMax |-> FloatV(800), resolution |-> FloatV(10),
                   magnitude |-> m]) : m \in Magnitudes \cup {Missing}}
    \cup {StrV("invalid"), BoolV(TRUE), BoolV(FALSE), IntV(100), ListV(<<>>)}

EntryShapes == {
    [type |-> "sensor", key |-> "w_1eommf39k"],
    [type |-> "binary_sensor", key |-> "w_1eommf39k"],
    [type |-> "switch", key |-> "w_1eommf39k"],
    [type |-> "number", key |-> "w_1eommf39k"],
    [type |-> "number", key |-> "w_1eommf39k", field |-> "minT"],
    [type |-> "number", key |-> "w_1eommf39k", field |-> "maxT"],
    [type |-> "select", key |-> "w_1eommf39k",
     options |-> << <<"0", "COMBO_M_">>, <<"1", "COMBO_LITER">> >>,
     conversion |-> [COMBO_M_ |-> "m3", COMBO_LITER |-> "L"]],
    [type |-> "unknown", key |-> "w_1eommf39k"],
    [key |-> "w_1eommf39k"] }

DecodeViews ==
    {[mapping |-> <<Entry("probe", a)>>,
      device_data |-> (prefix \o "w_1eommf39k" :> raw_entry)]
        : a \in EntryShapes, raw_entry \in RawEntries}
    \cup {[mapping |-> <<Entry("probe", [type |-> "switch"])>>,
           device_data |-> (prefix \o "probe" :> raw_entry)]
            : raw_entry \in {BoolV(TRUE), RawDict([current |-> StrV("O")])}}
    \cup {[mapping |-> <<Entry("probe", [type |-> "sensor", key |-> "w_missing"])>>,
           device_data |-> (prefix \o "w_1eommf39k" :> raw_entry)]
            : raw_entry \in {RawDict([current |-> FloatV(720)])}}

\* the JSON body of a value: json.dumps and aiohttp's json= write a tuple
\* as an array, like a list
RECURSIVE Json(_)
Json(v) ==
    CASE v.t \in {"tuple", "list"} ->
            ListV([i \in 1..Len(v.items) |-> Json(v.items[i])])
      [] OTHER -> v

\* {device_id: {path: body}} as posted
Payload(device_id, path, body) ==
    [device_id |-> device_id, path |-> path,
     body |-> [i \in 1..Len(body) |-> [value |-> Json(body[i].value), type |-> body[i].type]]]

\* RequestHandler.set_value: one object around the value, whatever it is;
\* a client error or a timeout of the POST becomes False
RequestHandler_set_value(device_id, path, value, value_type, post) ==
    [payload |-> Payload(device_id, path, <<[value |-> value, type |-> Upper(value_type)]>>),
     result |-> IF post \in {"ClientError", "TimeoutError"} THEN BoolV(FALSE) ELSE BoolV(TRUE)]

\* MockPooldoseClient.set_value: one object per item of a list or tuple
MockPooldoseClient_set_value(device_id, path, value, value_type, _inspect_payload) ==
    LET vt == Upper(value_type)
        payload_value ==
            IF value.t \in {"list", "tuple"}
            THEN [i \in 1..Len(value.items) |-> [value |-> value.items[i], type |-> vt]]
            ELSE <<[value |-> value, type |-> vt]>>
        payload == Payload(device_id, path, payload_value)
    IN  [payload |-> payload,
         result |-> IF _inspect_payload
                    THEN TupleV(<<BoolV(TRUE), DictV(payload)>>) ELSE BoolV(TRUE)]

\* arguments of set_value: the device id, values as the setters pass them
\* and as the transports' own tests do, type tags in either case
DeviceIds == {"PDPR1H1HAW100_FW539187"}
WireValues == {
    FloatV(720), IntV(700), StrV("O"), StrV("F"), IntV(100), BoolV(TRUE),
    ListV(<<FloatV(550), FloatV(800)>>), ListV(<<FloatV(620), FloatV(720)>>),
    ListV(<<IntV(700), FloatV(810)>>), ListV(<<FloatV(720)>>), ListV(<<>>),
    TupleV(<<FloatV(620), FloatV(810)>>) }
WireTypes == {"NUMBER", "STRING", "number", "string"}
PostOutcomes == {"ok", "ClientError", "TimeoutError"}

\* setpoint pairs: the raw record complete, without one of the thresholds,
\* without the upper threshold and its fallback, with an upper threshold
\* below its own range
PairRecords == {
    [minT |-> FloatV(620), maxT |-> FloatV(810), absMax |-> FloatV(1400)],
    [minT |-> FloatV(620), maxT |-> Missing, absMax |-> FloatV(1400)],
    [minT |-> Missing, maxT |-> FloatV(810), absMax |-> FloatV(1400)],
    [minT |-> FloatV(620), maxT |-> Missing, absMax |-> Missing],
    [minT |-> FloatV(620), maxT |-> FloatV(600), absMax |-> FloatV(1400)] }

PairRecord(r) ==
    RawDict([current |-> FloatV(700), minT |-> r.minT, maxT |-> r.maxT,
             absMin |-> FloatV(0), absMax |-> r.absMax, resolution |-> FloatV(10),
             magnitude |-> ListV(<<StrV("pH")>>)])

\* both entries of the pair, or only one of them
PairMappings == {
    <<Entry("ofa_ph_lower", [type |-> "number", key |-> "w_1eo1ttmft", field |-> "minT"]),
      Entry("ofa_ph_upper", [type |-> "number", key |-> "w_1eo1ttmft", field |-> "maxT"])>>,
    <<Entry("ofa_ph_lower", [type |-> "number", key |-> "w_1eo1ttmft", field |-> "minT"])>>,
    <<Entry("ofa_ph_upper", [type |-> "number", key |-> "w_1eo1ttmft", field |-> "maxT"])>> }

\* two threshold entries over different raw records: without `key`, so that
\* each is looked up under its own name, and with different keys
MappingKeyless == <<
    Entry("ofa_ph_lower", [type |-> "number", field |-> "minT"]),
    Entry("ofa_orp_upper", [type |-> "number", field |-> "maxT"]) >>

MappingTwoKeys == <<
    Entry("ofa_ph_lower", [type |-> "number", key |-> "w_1eo1ttmft", field |-> "minT"]),
    Entry("ofa_orp_upper", [type |-> "number", key |-> "w_1eo1s18s8", field |-> "maxT"]) >>

DataTwoRecords(ph, orp) ==
    (prefix \o ph :> PairRecord([minT |-> FloatV(620), maxT |-> FloatV(810),
                                 absMax |-> FloatV(1400)]))
    @@ (prefix \o orp :> PairRecord([minT |-> FloatV(600), maxT |-> FloatV(900),
                                     absMax |-> FloatV(1400)]))

PairViews ==
    {[mapping |-> m, device_data |-> (prefix \o "w_1eo1ttmft" :> PairRecord(r))]
        : m \in PairMappings, r \in PairRecords}
    \cup {[mapping |-> MappingKeyless,
           device_data |-> DataTwoRecords("ofa_ph_lower", "ofa_orp_upper")],
          [mapping |-> MappingTwoKeys,
           device_data |-> DataTwoRecords("w_1eo1ttmft", "w_1eo1s18s8")]}

\* logical names a caller may ask for
Names == MappingKeys \cup {"nonexistent"}

\* proposed values
NumberValues == {
    FloatV(590), FloatV(600), FloatV(620), FloatV(720), FloatV(725), FloatV(800),
    FloatV(810), FloatV(900), IntV(700), IntV(800), StrV("7.2") }
SwitchValues == {BoolV(TRUE), BoolV(FALSE), StrV("O")}
SelectValues == {StrV("L"), StrV("m3"), StrV("COMBO_LITER"), StrV("invalid"), IntV(100)}

\* what the request handler's set_value may return
TransportResults == {BoolV(TRUE), BoolV(FALSE), NoneV,
                     TupleV(<<BoolV(TRUE), StrV("payload")>>)}

\* what it may raise, or have thrown into the await
TransportErrors == {"TypeError", "IndexError", "CancelledError"}

\* the except clauses around the await
CaughtBy(op) ==
    IF op = "set_number"
    THEN {"TypeError", "ValueError", "IndexError", "KeyError", "AttributeError"}
    ELSE {"KeyError", "TypeError", "AttributeError", "ValueError"}

\* setters that may be suspended at once
MaxPending == 1

-----------------------------------------------------------------------------
(* The state machine *)

\* `transport` of a step that did not resume from set_value
Nothing == [t |-> "nothing"]

\* phase: "returned" (the setter returned without calling set_value),
\* "awaiting" (it called set_value and is suspended), "resumed" (set_value
\* ended and the setter returned `result`)
Step(op, key, value, phase, result, calls, decoded, transport) ==
    [op |-> op, key |-> key, value |-> value, phase |-> phase, result |-> result,
     calls |-> calls, decoded |-> decoded, transport |-> transport]

StartIn(views) ==
    /\ \E v \in views : mapping = v.mapping /\ device_data = v.device_data
    /\ cache = <<>>
    /\ pending = <<>>
    /\ last = Step("init", "", NoneV, "returned", NoneV, <<>>, FALSE, Nothing)
    /\ reads = <<>>

Start == StartIn(Views)

Init == Start /\ tracing = FALSE

InitReads == Start /\ tracing = TRUE

\* the history of the caller's keyed reads: a read records its value, a
\* successful write of a name forgets it
Track(step) ==
    IF step.op = "read" THEN (step.key :> step.result) @@ reads
    ELSE IF step.phase = "resumed" /\ Truthy(step.result) /\ ~IsRaise(step.result)
         THEN [k \in DOMAIN reads \ {step.key} |-> reads[k]]
    ELSE reads

History ==
    /\ reads' = IF tracing THEN Track(last') ELSE reads
    /\ UNCHANGED tracing

\* value = view[key]
Read(key) ==
    LET got == __getitem__(cache, key)
    IN  /\ cache' = got.cache
        /\ last' = Step("read", key, NoneV, "returned", got.value, <<>>, got.decoded, Nothing)
        /\ UNCHANGED <<mapping, device_data, pending>>
        /\ History

\* structured = view.to_structured_dict(): decodes afresh, cache untouched
ToStructuredDict ==
    /\ last' = Step("to_structured_dict", "", NoneV, "returned",
                    DictV(to_structured_dict), <<>>, TRUE, Nothing)
    /\ UNCHANGED <<mapping, device_data, cache, pending>>
    /\ History

\* a setter runs up to its return or up to the await of set_value
Dispatch(op, key, value, out) ==
    /\ out.kind = "await" => Len(pending) < MaxPending
    /\ cache' = out.cache
    /\ pending' = IF out.kind = "await"
                  THEN Append(pending, [op |-> op, key |-> key])
                  ELSE pending
    /\ last' = IF out.kind = "await"
               THEN Step(op, key, value, "awaiting", NoneV, <<out.call>>, FALSE, Nothing)
               ELSE Step(op, key, value, "returned", out.result, <<>>, FALSE, Nothing)
    /\ UNCHANGED <<mapping, device_data>>
    /\ History

SetNumber(key, value) == Dispatch("set_number", key, value, set_number(cache, key, value))

SetSwitch(key, value) == Dispatch("set_switch", key, value, set_switch(cache, key, value))

SetSelect(key, value) == Dispatch("set_select", key, value, set_select(cache, key, value))

Without(seq, i) == [j \in 1..(Len(seq) - 1) |-> IF j < i THEN seq[j] ELSE seq[j + 1]]

\* an eviction that clears the whole cache on success
EvictAll(c, key, result) == IF Truthy(result) THEN <<>> ELSE c

\* an eviction that does not look at the result
EvictAlways(c, key, result) == CachePop(c, key)

\* if result: self._cache.pop(key, None)
Evict(c, key, result) == IF Truthy(result) THEN CachePop(c, key) ELSE c

\* a resumption that also drops the written raw record from the snapshot
TransportReturnsDropsRaw(i, result) ==
    /\ i \in 1..Len(pending)
    /\ cache' = Evict(cache, pending[i].key, result)
    /\ pending' = Without(pending, i)
    /\ last' = Step(pending[i].op, pending[i].key, NoneV, "resumed",
                    result, <<>>, FALSE, result)
    /\ device_data' = IF Truthy(result)
                      THEN [k \in DOMAIN device_data
                                \ {FullKey(MappingAt(pending[i].key), pending[i].key)}
                              |-> device_data[k]]
                      ELSE device_data
    /\ UNCHANGED mapping
    /\ History

\* set_value returns: the setter resumes, evicts on success, returns result
TransportReturns(i, result) ==
    /\ i \in 1..Len(pending)
    /\ cache' = Evict(cache, pending[i].key, result)
    /\ pending' = Without(pending, i)
    /\ last' = Step(pending[i].op, pending[i].key, NoneV, "resumed",
                    result, <<>>, FALSE, result)
    /\ UNCHANGED <<mapping, device_data>>
    /\ History

\* the await raises or is cancelled: a caught error becomes False, any
\* other propagates to the caller
TransportRaises(i, e) ==
    /\ i \in 1..Len(pending)
    /\ pending' = Without(pending, i)
    /\ last' = Step(pending[i].op, pending[i].key, NoneV, "resumed",
                    IF e \in CaughtBy(pending[i].op) THEN BoolV(FALSE) ELSE Raise(e),
                    <<>>, FALSE, Raise(e))
    /\ UNCHANGED <<mapping, device_data, cache>>
    /\ History

Next ==
    \/ \E key \in Names : Read(key)
    \/ ToStructuredDict
    \/ \E key \in Names, value \in NumberValues : SetNumber(key, value)
    \/ \E key \in Names, value \in SwitchValues : SetSwitch(key, value)
    \/ \E key \in Names, value \in SelectValues : SetSelect(key, value)
    \/ \E i \in 1..MaxPending, result \in TransportResults : TransportReturns(i, result)
    \/ \E i \in 1..MaxPending, e \in TransportErrors : TransportRaises(i, e)

Spec == Init /\ [][Next]_vars

\* the same view with the history of keyed reads kept
SpecReads == InitReads /\ [][Next]_vars

\* the same view over every kind and raw shape
InitDecode == StartIn(DecodeViews) /\ tracing = FALSE

SpecDecode == InitDecode /\ [][Next]_vars

\* the same view over the threshold pairs
InitPairs == StartIn(PairViews) /\ tracing = FALSE

SpecPairs == InitPairs /\ [][Next]_vars

\* the set_value calls the setters of the view make
SetterCalls ==
    {out.call : out \in
        {o \in {set_number(cache, key, value) : key \in Names, value \in NumberValues}
               \cup {set_switch(cache, key, value) : key \in Names, value \in SwitchValues}
               \cup {set_select(cache, key, value) : key \in Names, value \in SelectValues}
           : o.kind = "await"}}

TransportCalls ==
    SetterCalls
    \cup {[path |-> prefix \o "w_1eo1ttmft", value |-> value, type |-> value_type]
            : value \in WireValues, value_type \in WireTypes}

\* await handler.set_value(device_id, path, value, value_type)
HandlerSetValue(device_id, call, post) ==
    LET out == RequestHandler_set_value(device_id, call.path, call.value, call.type, post)
    IN  /\ last' = Step("RequestHandler.set_value", call.path, call.value, "returned",
                        out.result, <<call>>, FALSE, out.payload)
        /\ UNCHANGED <<mapping, device_data, cache, pending>>
        /\ History

\* await client.set_value(device_id, path, value, value_type)
MockSetValue(device_id, call, _inspect_payload) ==
    LET out == MockPooldoseClient_set_value(device_id, call.path, call.value, call.type,
                                            _inspect_payload)
    IN  /\ last' = Step("MockPooldoseClient.set_value", call.path, call.value, "returned",
                        out.result, <<call>>, FALSE, out.payload)
        /\ UNCHANGED <<mapping, device_data, cache, pending>>
        /\ History

NextTransport ==
    \/ \E device_id \in DeviceIds, call \in TransportCalls, post \in PostOutcomes :
          HandlerSetValue(device_id, call, post)
    \/ \E device_id \in DeviceIds, call \in TransportCalls, _inspect_payload \in BOOLEAN :
          MockSetValue(device_id, call, _inspect_payload)

\* the two transports applied to the same arguments
SpecTransport == Init /\ [][NextTransport]_vars

-----------------------------------------------------------------------------
(* Vocabulary of the properties, stated on the mapping table and on the    *)
(* decoded values, independently of the setters' own checks                 *)

Setters == {"set_number", "set_switch", "set_select"}

KindOfSetter(op) ==
    CASE op = "set_number" -> "number"
      [] op = "set_switch" -> "switch"
      [] op = "set_select" -> "select"

\* the mapping entry of a name, and whether it has the given kind
EntryOf(key) == mapping[CHOOSE i \in 1..Len(mapping) : mapping[i].name = key].a
HasKind(key, kind) ==
    /\ \E i \in 1..Len(mapping) : mapping[i].name = key
    /\ "type" \in DOMAIN EntryOf(key)
    /\ EntryOf(key).type = kind

\* device key (the entry's `key`, else the logical name) and field selector
DeviceKeyOf(key) == IF "key" \in DOMAIN EntryOf(key) THEN EntryOf(key).key ELSE key
SelectorOf(key) == IF "field" \in DOMAIN EntryOf(key) THEN EntryOf(key).field ELSE "current"
IsPaired(key) == SelectorOf(key) \in {"minT", "maxT"}

\* the number entries with the opposite selector on the same device key
SiblingsOf(key) ==
    {k \in MappingKeys :
        /\ HasKind(k, "number")
        /\ IsPaired(key) /\ IsPaired(k) /\ SelectorOf(k) # SelectorOf(key)
        /\ DeviceKeyOf(k) = DeviceKeyOf(key)}

\* the step just taken is the call of setter `op` (not its resumption)
Called(op) == last.op = op /\ last.phase \in {"returned", "awaiting"}

\* ... and it returned False without any transport call
RejectedNoCall ==
    last.phase = "returned" /\ last.result = BoolV(FALSE) /\ last.calls = <<>>

\* ... and it made exactly one transport call, which is `call`
MadeCall(call) == last.phase = "awaiting" /\ last.calls = <<call>>

\* the decoded minimum, maximum and resolution of a number entry
MinOf(key) == _get_value(key).items[3]
MaxOf(key) == _get_value(key).items[4]
StepOf(key) == _get_value(key).items[5]
IsNumber(v) == v.t \in {"int", "float"}

\* a number entry whose decoded minimum and maximum are both numbers
Bounded(key) ==
    /\ HasKind(key, "number")
    /\ _get_value(key).t = "tuple"
    /\ IsNumber(MinOf(key)) /\ IsNumber(MaxOf(key))

\* v lies on the grid minimum + n * resolution (exactly, in hundredths)
OnGrid(key, v) == (v.n - MinOf(key).n) % StepOf(key).n = 0

\* the other bound of a paired write can be resolved
PairResolvable(key) ==
    IsPaired(key) => \E k \in SiblingsOf(key) :
                        _get_value(k).t = "tuple" /\ _get_value(k).items[1] # NoneV

-----------------------------------------------------------------------------
(* C1: for a number entry with decoded minimum and maximum, set_number     *)
(* returns False and makes no transport call for a value below the minimum *)
(* or above the maximum; a value equal to the minimum or to the maximum    *)
(* is not rejected by the range check: it is sent whenever the step check  *)
(* and the resolution of the paired bound do not reject it.                *)
C1_RangeInclusive ==
    (Called("set_number") /\ Bounded(last.key) /\ IsNumber(last.value)) =>
        /\ (last.value.n < MinOf(last.key).n \/ last.value.n > MaxOf(last.key).n)
              => RejectedNoCall
        /\ (/\ last.value.n \in {MinOf(last.key).n, MaxOf(last.key).n}
            /\ IsNumber(StepOf(last.key)) /\ StepOf(last.key).n > 0
            /\ OnGrid(last.key, last.value)
            /\ PairResolvable(last.key))
              => last.phase = "awaiting" /\ Len(last.calls) = 1

\* 8.1 on the 6.0..8.0 entry has been rejected
C1_Witness ==
    /\ Called("set_number") /\ last.key = "target_ph" /\ last.value = FloatV(810)
    /\ MaxOf("target_ph") = FloatV(800)
    /\ RejectedNoCall

(* C2: for a number entry with a decoded minimum and a non-zero            *)
(* resolution, set_number rejects every in-range value, int or float, that *)
(* is off the grid minimum + n * resolution, and sends those on the grid.  *)
C2_StepGridIntOrFloat ==
    (/\ Called("set_number") /\ Bounded(last.key) /\ IsNumber(last.value)
     /\ IsNumber(StepOf(last.key)) /\ StepOf(last.key).n > 0
     /\ MinOf(last.key).n <= last.value.n /\ last.value.n <= MaxOf(last.key).n) =>
        /\ ~OnGrid(last.key, last.value) => RejectedNoCall
        /\ (OnGrid(last.key, last.value) /\ PairResolvable(last.key))
              => last.phase = "awaiting"

(* C3: a validated write of v to a minT (resp. maxT) entry whose sibling   *)
(* reads s makes exactly one transport call, on prefix + device key,       *)
(* tagged NUMBER, with the value [v, s] (resp. [s, v]).                     *)
C3_PairedWrite ==
    (Called("set_number") /\ HasKind(last.key, "number") /\ IsPaired(last.key)
        /\ SiblingsOf(last.key) # {}) =>
        /\ last.phase = "awaiting" =>
              \E k \in SiblingsOf(last.key) :
                 LET s == _get_value(k).items[1]
                 IN  last.calls = << [path |-> prefix \o DeviceKeyOf(last.key),
                                      type |-> "NUMBER",
                                      value |-> IF SelectorOf(last.key) = "minT"
                                                THEN ListV(<<last.value, s>>)
                                                ELSE ListV(<<s, last.value>>)] >>
        /\ (/\ Bounded(last.key) /\ last.value.t = "float"
            /\ MinOf(last.key).n <= last.value.n /\ last.value.n <= MaxOf(last.key).n
            /\ IsNumber(StepOf(last.key)) /\ StepOf(last.key).n > 0
            /\ OnGrid(last.key, last.value)
            /\ PairResolvable(last.key))
              => last.phase = "awaiting"

\* the lower bound set to 6.2 while the upper bound reads 8.1
C3_Witness ==
    /\ Called("set_number") /\ last.key = "ofa_ph_lower" /\ last.value = FloatV(620)
    /\ _get_value("ofa_ph_upper").items[1] = FloatV(810)
    /\ MadeCall([path |-> prefix \o "w_1eo1ttmft", type |-> "NUMBER",
                 value |-> ListV(<<FloatV(620), FloatV(810)>>)])

(* C4: set_switch on a switch entry sends True as "O" and False as "F" in  *)
(* exactly one transport call tagged STRING on prefix + device key; for a  *)
(* value that is not a bool it returns False and makes no transport call.  *)
C4_SwitchEncode ==
    (Called("set_switch") /\ HasKind(last.key, "switch")) =>
        IF last.value.t = "bool"
        THEN MadeCall([path |-> prefix \o DeviceKeyOf(last.key), type |-> "STRING",
                       value |-> IF last.value.b THEN StrV("O") ELSE StrV("F")])
        ELSE RejectedNoCall

\* True has been sent as "O", and the string "O" is a non-bool input
C4_Witness ==
    /\ Called("set_switch") /\ last.key = "pump_switch" /\ last.value = BoolV(TRUE)
    /\ MadeCall([path |-> prefix \o "w_1switch123", type |-> "STRING",
                 value |-> StrV("O")])
    /\ StrV("O") \in SwitchValues

\* the externally visible values of a select entry: each option label,
\* replaced by its conversion when the conversion table has one
VisibleValues(key) ==
    LET e == EntryOf(key)
        labels == IF "options" \in DOMAIN e
                  THEN {e.options[i][2] : i \in 1..Len(e.options)} ELSE {}
    IN  {IF "conversion" \in DOMAIN e /\ l \in DOMAIN e.conversion
         THEN e.conversion[l] ELSE l : l \in labels}

IsVisible(key, v) == v.t = "str" /\ v.s \in VisibleValues(key)

(* C5: set_select returns False and makes no transport call for every      *)
(* value that is not an externally visible value of the entry; with no     *)
(* options every value is rejected.                                         *)
C5_SelectMembership ==
    (Called("set_select") /\ HasKind(last.key, "select")
        /\ ~IsVisible(last.key, last.value)) => RejectedNoCall

\* a raw option label that the conversion table hides has been rejected
C5_Witness ==
    /\ Called("set_select") /\ last.key = "water_unit"
    /\ last.value = StrV("COMBO_LITER")
    /\ VisibleValues("water_unit") = {"m3", "L"}
    /\ RejectedNoCall

\* the device-side indices of the options shown as v
IndicesOf(key, v) ==
    LET e == EntryOf(key)
    IN  {i \in 1..Len(OptionsOf(e)) :
            \/ /\ "conversion" \in DOMAIN e
               /\ e.options[i][2] \in DOMAIN e.conversion
               /\ e.conversion[e.options[i][2]] = v.s
            \/ e.options[i][2] = v.s}

(* C6: every transport call of set_select is tagged NUMBER and carries the *)
(* integer option index whose label converts to (or else equals) the       *)
(* proposed value, with and without a conversion table.                     *)
C6_SelectSendsIndex ==
    (Called("set_select") /\ last.phase = "awaiting") =>
        /\ Len(last.calls) = 1
        /\ last.calls[1].type = "NUMBER"
        /\ \E i \in IndicesOf(last.key, last.value) :
              last.calls[1].value = IntV(100 * IntOf(EntryOf(last.key).options[i][1]))

(* C7: each setter returns False, makes no transport call and leaves the   *)
(* read cache unchanged when the name is not in the mapping table or its   *)
(* entry is not of the setter's kind.                                       *)
C7_KindMismatch ==
    [][(/\ last'.op \in Setters /\ last'.phase \in {"returned", "awaiting"}
        /\ ~HasKind(last'.key, KindOfSetter(last'.op)))
           => (/\ last'.phase = "returned" /\ last'.result = BoolV(FALSE)
               /\ last'.calls = <<>>
               /\ cache' = cache)]_vars

\* set_number on a switch entry has been rejected, nothing cached for it
C7_Witness ==
    /\ Called("set_number") /\ last.key = "pump_switch"
    /\ HasKind("pump_switch", "switch")
    /\ RejectedNoCall /\ "pump_switch" \notin DOMAIN cache

\* the step just taken is a setter resuming from a truthy set_value result
Succeeded(step) ==
    /\ step.op \in Setters /\ step.phase = "resumed"
    /\ ~IsRaise(step.transport) /\ Truthy(step.transport)

C9_EveryReadIsCached ==
    [][(last'.op = "read" /\ last'.key \in DOMAIN reads)
          => (last'.result = reads[last'.key] /\ ~last'.decoded)]_vars

(* C9, amended: the same for every name whose read returned a value; a     *)
(* read that returned None is not cached: a later read of the name decodes *)
(* again and returns None again.                                            *)
C9_PresentReadIsCached ==
    [][(last'.op = "read" /\ last'.key \in DOMAIN reads)
          => /\ last'.result = reads[last'.key]
             /\ last'.decoded = (reads[last'.key] = NoneV)]_vars

\* a second read of a decoded name, served without decoding
C9_Witness ==
    /\ tracing /\ last.op = "read" /\ last.key \in DOMAIN reads
    /\ last.result # NoneV /\ last.result = reads[last.key]
    /\ ~last.decoded

(* C10: when set_value returns a falsy result the write returns that very  *)
(* result and the cache keeps every entry; a cache entry disappears only   *)
(* in the step in which a write of that name resumes from a truthy result. *)
C10_EvictOnlyOnSuccess ==
    [][/\ (/\ last'.op \in Setters /\ last'.phase = "resumed"
           /\ ~IsRaise(last'.transport) /\ ~Truthy(last'.transport))
              => (last'.result = last'.transport /\ cache' = cache)
       /\ \A k \in DOMAIN cache \ DOMAIN cache' :
              Succeeded(last') /\ last'.key = k]_vars

\* set_value returned None for a write of target_ph, which is still cached
C10_Witness ==
    /\ last.op = "set_number" /\ last.phase = "resumed" /\ last.key = "target_ph"
    /\ last.transport = NoneV /\ last.result = NoneV
    /\ "target_ph" \in DOMAIN cache

-----------------------------------------------------------------------------
(* Vocabulary of the decoding properties *)

Mapped(key) == \E i \in 1..Len(mapping) : mapping[i].name = key

KnownKinds == {"sensor", "binary_sensor", "switch", "number", "select"}

KindOf(key) == IF "type" \in DOMAIN EntryOf(key) THEN EntryOf(key).type ELSE ""

\* the raw record found at prefix + device key
RawKeyOf(key) == prefix \o DeviceKeyOf(key)
HasRaw(key) == Mapped(key) /\ RawKeyOf(key) \in DOMAIN device_data
RawOf(key) == device_data[RawKeyOf(key)]

\* a raw record of the shape the kind expects
WellFormed(key) ==
    \/ RawOf(key).t = "dict"
    \/ KindOf(key) = "switch" /\ RawOf(key).t = "bool"

HasField(key, f) == RawOf(key).t = "dict" /\ f \in DOMAIN RawOf(key).d
FieldOf(key, f) == RawOf(key).d[f]

\* the step just taken is a keyed read of an entry of one of the kinds
ReadOf(kinds) ==
    /\ last.op = "read" /\ HasRaw(last.key)
    /\ KindOf(last.key) \in kinds

\* reading the unit of a sensor raises: the magnitude is a non-empty value
\* that has no first entry, or whose first entry is not a string
UnitLookupFails(key) ==
    /\ KindOf(key) = "sensor" /\ HasField(key, "magnitude")
    /\ LET m == FieldOf(key, "magnitude")
       IN  \/ m.t \in {"int", "float"} /\ m.n # 0
           \/ m.t = "dict" /\ DOMAIN m.d # {}
           \/ m.t = "list" /\ Len(m.items) > 0 /\ m.items[1].t # "str"

(* C11: a keyed read never raises; it returns none when the name is not in *)
(* the mapping table, when prefix + device key is not in the raw snapshot, *)
(* when the entry has no kind or an unknown kind, and when decoding hits   *)
(* an attribute, key or type error.                                         *)
C11_ReadNeverRaises ==
    last.op = "read" =>
        /\ ~IsRaise(last.result)
        /\ ~Mapped(last.key) => last.result = NoneV
        /\ (Mapped(last.key) /\ ~HasRaw(last.key)) => last.result = NoneV
        /\ (HasRaw(last.key) /\ KindOf(last.key) \notin KnownKinds)
              => last.result = NoneV
        /\ (HasRaw(last.key) /\ UnitLookupFails(last.key)) => last.result = NoneV

\* a sensor whose first magnitude entry is a number has been read as none
C11_Witness ==
    /\ ReadOf({"sensor"}) /\ last.key = "probe"
    /\ HasField("probe", "magnitude")
    /\ FieldOf("probe", "magnitude") = ListV(<<IntV(500)>>)
    /\ last.result = NoneV /\ last.decoded

\* the step just taken ended a write: it returned, or resumed from set_value
Ended(step) == step.op \in Setters /\ step.phase \in {"returned", "resumed"}

(* C12: every write ends with a true or false result and never raises,     *)
(* also when set_value itself raises an error (cancellation of the caller  *)
(* aside): then the write ends with false.                                  *)
C12_WriteNeverRaises ==
    (Ended(last) /\ last.transport # Raise("CancelledError")) =>
        /\ ~IsRaise(last.result)
        /\ IsRaise(last.transport) => last.result = BoolV(FALSE)
        /\ last.phase = "returned" => last.result \in {BoolV(TRUE), BoolV(FALSE)}

(* C13: no step changes the mapping table or the raw snapshot; after a     *)
(* successful write the raw record of the written name is what it was.     *)
C13_SnapshotUntouched ==
    [][mapping' = mapping /\ device_data' = device_data]_vars

\* a write of target_ph has succeeded and the raw record still reads 7.0
C13_Witness ==
    /\ Succeeded(last) /\ last.key = "target_ph"
    /\ FieldOf("target_ph", "current") = FloatV(700)
    /\ device_data = DataFixture

\* the decoded unit of a sensor or number tuple
UnitOf(result) == result.items[2]

\* the first magnitude entry, when the magnitude is a non-empty list
HasFirstUnit(key) ==
    /\ HasField(key, "magnitude")
    /\ FieldOf(key, "magnitude").t = "list"
    /\ Len(FieldOf(key, "magnitude").items) > 0
FirstUnit(key) == FieldOf(key, "magnitude").items[1]

\* the strings of the snapshots that are "ph" but for case, that start with
\* "ph" but for case, and that are "undefined" but for case
IsPh(s) == s \in {"ph", "pH", "PH", "Ph"}
StartsWithPh(s) == IsPh(s) \/ s \in {"pH value", "PH_UNIT"}
IsUndefined(s) == s \in {"undefined", "UNDEFINED", "Undefined"}

(* C14, as claimed: the unit of a sensor or number entry is none whenever  *)
(* the first magnitude entry starts with "ph" in any letter case.           *)
C14_PhPrefixHidesUnit ==
    (/\ ReadOf({"sensor", "number"}) /\ HasFirstUnit(last.key)
     /\ FirstUnit(last.key).t = "str" /\ StartsWithPh(FirstUnit(last.key).s))
        => (last.result.t = "tuple" /\ UnitOf(last.result) = NoneV)

(* C14, amended: the unit is none whenever the first magnitude entry       *)
(* equals "ph" in any letter case, whatever else the list contains; a      *)
(* longer first entry that only starts with "ph" is the decoded unit.      *)
C14_PhHidesUnit ==
    (/\ ReadOf({"sensor", "number"}) /\ HasFirstUnit(last.key)
     /\ FirstUnit(last.key).t = "str" /\ StartsWithPh(FirstUnit(last.key).s))
        => /\ last.result.t = "tuple"
           /\ UnitOf(last.result) = IF IsPh(FirstUnit(last.key).s) THEN NoneV
                                    ELSE FirstUnit(last.key)

\* magnitude ["pH", "PH_UNIT"] with current 7.2 has been read as (7.2, none)
C14_Witness ==
    /\ ReadOf({"sensor"}) /\ HasFirstUnit(last.key)
    /\ FieldOf(last.key, "magnitude") = ListV(<<StrV("pH"), StrV("PH_UNIT")>>)
    /\ last.result = TupleV(<<FloatV(720), NoneV>>)

(* C15: the unit of a sensor or number entry is none when the raw record   *)
(* has no magnitude, an empty magnitude list, or a first entry that is ""  *)
(* or "undefined" in any letter case; in every other non-pH case it is the *)
(* first magnitude entry.                                                   *)
C15_UnitOrNone ==
    (ReadOf({"sensor", "number"}) /\ RawOf(last.key).t = "dict"
        /\ last.result.t = "tuple") =>
        /\ ~HasField(last.key, "magnitude") => UnitOf(last.result) = NoneV
        /\ (HasField(last.key, "magnitude")
              /\ FieldOf(last.key, "magnitude") = ListV(<<>>))
              => UnitOf(last.result) = NoneV
        /\ (/\ HasFirstUnit(last.key) /\ FirstUnit(last.key).t = "str"
            /\ ~StartsWithPh(FirstUnit(last.key).s)) =>
              UnitOf(last.result) =
                 IF \/ FirstUnit(last.key).s = ""
                    \/ IsUndefined(FirstUnit(last.key).s)
                 THEN NoneV
                 ELSE FirstUnit(last.key)

\* "O" but for case
IsOn(s) == s \in {"O", "o"}

(* C16: switch and binary_sensor entries read a string `current` as true   *)
(* exactly when it is "O" in any letter case, a boolean `current` as       *)
(* itself, and a switch whose raw entry is a boolean as that boolean; the  *)
(* wire value set_switch sends for true reads as true.                      *)
C16_SentinelO ==
    /\ (ReadOf({"switch", "binary_sensor"})
          /\ "conversion" \notin DOMAIN EntryOf(last.key)) =>
          /\ (KindOf(last.key) = "switch" /\ RawOf(last.key).t = "bool")
                => last.result = RawOf(last.key)
          /\ (HasField(last.key, "current")
                /\ FieldOf(last.key, "current").t = "str")
                => last.result = BoolV(IsOn(FieldOf(last.key, "current").s))
          /\ (HasField(last.key, "current")
                /\ FieldOf(last.key, "current").t = "bool")
                => last.result = FieldOf(last.key, "current")
    /\ (Called("set_switch") /\ last.phase = "awaiting") =>
          (_process_switch_value(RawDict([current |-> last.calls[1].value]), last.key)
              = last.value)

\* a binary sensor whose current is a lower-case "o" has been read as true
C16_Witness ==
    /\ ReadOf({"binary_sensor"}) /\ HasField(last.key, "current")
    /\ FieldOf(last.key, "current") = StrV("o")
    /\ last.result = BoolV(TRUE)

(* C17: a binary_sensor entry whose raw record has no `current` decodes to *)
(* none, never to false.                                                    *)
C17_BinaryMissingCurrent ==
    (ReadOf({"binary_sensor"}) /\ RawOf(last.key).t = "dict"
        /\ ~HasField(last.key, "current")) => last.result = NoneV

(* C18, as claimed: a switch entry over a dict decodes to none when        *)
(* `current` is missing and when it is neither a string nor a boolean.     *)
C18_SwitchOtherTypesAbsent ==
    (ReadOf({"switch"}) /\ RawOf(last.key).t = "dict") =>
        IF HasField(last.key, "current")
            /\ FieldOf(last.key, "current").t \in {"str", "bool"}
        THEN last.result.t = "bool"
        ELSE last.result = NoneV

(* C18, amended: a switch entry over a dict decodes to none when `current` *)
(* is missing; a `current` that is neither a string nor a boolean decodes  *)
(* to its truth value (a non-zero number to true, zero to false).          *)
C18_SwitchOtherTypesCoerced ==
    (ReadOf({"switch"}) /\ RawOf(last.key).t = "dict") =>
        IF ~HasField(last.key, "current") THEN last.result = NoneV
        ELSE IF FieldOf(last.key, "current").t \in {"int", "float"}
             THEN last.result = BoolV(FieldOf(last.key, "current").n # 0)
        ELSE last.result.t = "bool"

\* a switch whose current is the number 1 has been read as true
C18_Witness ==
    /\ ReadOf({"switch"}) /\ HasField(last.key, "current")
    /\ FieldOf(last.key, "current") = IntV(100)
    /\ last.result = BoolV(TRUE)

\* a number entry whose raw absMin, absMax and resolution are numbers
NumericBounds(key) ==
    /\ HasField(key, "absMin") /\ IsNumber(FieldOf(key, "absMin"))
    /\ HasField(key, "absMax") /\ IsNumber(FieldOf(key, "absMax"))
    /\ HasField(key, "resolution") /\ IsNumber(FieldOf(key, "resolution"))

(* C19: a number entry with numeric absMin, absMax and resolution reports  *)
(* (absMin, absMax) without a selector, (absMin, absMax / 2) for minT and  *)
(* (absMax / 2 + resolution, absMax) for maxT, and its value is the        *)
(* selector's field instead of `current`.                                   *)
C19_SplitBounds ==
    (ReadOf({"number"}) /\ NumericBounds(last.key)) =>
        /\ last.result.t = "tuple" /\ Len(last.result.items) = 5
        /\ last.result.items[1] =
              IF HasField(last.key, SelectorOf(last.key))
              THEN FieldOf(last.key, SelectorOf(last.key)) ELSE NoneV
        /\ last.result.items[5] = FieldOf(last.key, "resolution")
        /\ CASE SelectorOf(last.key) = "minT" ->
                   /\ last.result.items[3] = FieldOf(last.key, "absMin")
                   /\ IsNumber(last.result.items[4])
                   /\ 2 * last.result.items[4].n = FieldOf(last.key, "absMax").n
             [] SelectorOf(last.key) = "maxT" ->
                   /\ IsNumber(last.result.items[3])
                   /\ 2 * last.result.items[3].n =
                         FieldOf(last.key, "absMax").n
                            + 2 * FieldOf(last.key, "resolution").n
                   /\ last.result.items[4] = FieldOf(last.key, "absMax")
             [] OTHER ->
                   /\ last.result.items[3] = FieldOf(last.key, "absMin")
                   /\ last.result.items[4] = FieldOf(last.key, "absMax")

\* the upper bound of a 0..14 record with resolution 0.1: 8.1 in 7.1..14
C19_Witness ==
    /\ ReadOf({"number"}) /\ SelectorOf(last.key) = "maxT"
    /\ NumericBounds(last.key) /\ FieldOf(last.key, "absMax") = FloatV(1400)
    /\ last.result.items[1] = FloatV(810)
    /\ last.result.items[3] = FloatV(710) /\ last.result.items[4] = FloatV(1400)

\* a raw entry that is not of the shape the kind expects
Malformed(key) == HasRaw(key) /\ ~WellFormed(key)

DisplayedOf(e, i) ==
    IF "conversion" \in DOMAIN e /\ e.options[i][2] \in DOMAIN e.conversion
    THEN e.conversion[e.options[i][2]] ELSE e.options[i][2]

Invertible(key) ==
    /\ HasKind(key, "select") /\ "options" \in DOMAIN EntryOf(key)
    /\ \A i \in 1..Len(EntryOf(key).options) :
          /\ IsNumeral(EntryOf(key).options[i][1])
          /\ \A j \in 1..Len(EntryOf(key).options) :
                i # j => DisplayedOf(EntryOf(key), i) # DisplayedOf(EntryOf(key), j)

(* C21: select encode inverts select decode: for a select entry with       *)
(* numeral indices and pairwise distinct displayed values, set_select      *)
(* called with the value that raw current = i decodes to makes a transport *)
(* call whose value is the integer i.                                       *)
C21_SelectRoundTrip ==
    (Called("set_select") /\ Invertible(last.key)) =>
        \A i \in 1..Len(EntryOf(last.key).options) :
            (_process_select_value(
                 RawDict([current |-> StrV(EntryOf(last.key).options[i][1])]),
                 EntryOf(last.key)) = last.value)
            => /\ last.phase = "awaiting"
               /\ last.calls[1].value =
                     IntV(100 * IntOf(EntryOf(last.key).options[i][1]))

\* a name the projection is to leave out: its raw key is missing, its raw
\* record is malformed or lacks the value field, or its kind is unknown
LeftOut(key) ==
    \/ ~HasRaw(key)
    \/ Malformed(key)
    \/ RawOf(key).t = "dict" /\ ~HasField(key, SelectorOf(key))
    \/ KindOf(key) \notin KnownKinds

(* C22: an entry that decodes to absent contributes nothing to the         *)
(* structured projection: a name whose raw key is missing, whose raw       *)
(* record is malformed or lacks its value field, or whose kind is unknown  *)
(* has no record in the result, no record of the result has a none value,  *)
(* and no group of the result is empty.                                     *)
C22_AbsentContributesNothing ==
    last.op = "to_structured_dict" =>
        /\ \A key \in MappingKeys : LeftOut(key) =>
              \A kind \in DOMAIN last.result.d : key \notin DOMAIN last.result.d[kind]
        /\ \A kind \in DOMAIN last.result.d :
              /\ DOMAIN last.result.d[kind] # {}
              /\ \A key \in DOMAIN last.result.d[kind] :
                    last.result.d[kind][key].value # NoneV

\* the objects the claim expects for a value: one per item of a list, else one
ClaimedBody(value, value_type) ==
    IF value.t = "list"
    THEN [i \in 1..Len(value.items) |->
            [value |-> Json(value.items[i]), type |-> Upper(value_type)]]
    ELSE <<[value |-> Json(value), type |-> Upper(value_type)]>>

TransportOps == {"RequestHandler.set_value", "MockPooldoseClient.set_value"}

(* C23: the real transport's set_value and the mock client's set_value     *)
(* build the same payload for the same arguments: one {value, type} object *)
(* for a single value, k objects in order for a list of k values, the type *)
(* tag upper-cased in every object; a paired-bound write reaches the       *)
(* device as two NUMBER objects.                                            *)
C23_SamePayload ==
    last.op \in TransportOps =>
        /\ last.transport.path = last.key
        /\ last.value.t # "tuple" =>
              last.transport.body = ClaimedBody(last.value, last.calls[1].type)
        /\ \A i \in 1..Len(last.transport.body) :
              last.transport.body[i].type \in {"NUMBER", "STRING"}

(* C24: in every reachable state, whatever reads, projections and writes  *)
(* (successful, rejected, failed or still pending) came before, each entry *)
(* of the read cache is not none and equals the value that decoding its    *)
(* name from the raw snapshot yields; so every keyed read, before or after *)
(* a successful write of its name, returns that decoded value.              *)
C24_CacheIsFreshDecode ==
    /\ \A key \in DOMAIN cache : cache[key] # NoneV /\ cache[key] = _get_value(key)
    /\ last.op = "read" => last.result = _get_value(last.key)

\* a name is read from the cache while a write of that name is pending
C24_Witness ==
    /\ last.op = "read" /\ ~last.decoded /\ last.key \in DOMAIN cache
    /\ \E i \in 1..Len(pending) : pending[i].key = last.key
    /\ last.result = cache[last.key]

\* the pair a write of `value` to `key` submits when the other threshold is s
PairOf(key, value, s) ==
    IF SelectorOf(key) = "minT" THEN ListV(<<value, s>>) ELSE ListV(<<s, value>>)

\* the step from `before` to `after`: a write of one threshold has succeeded
\* and the next operation of the view is a write of the other threshold,
\* which passed validation and is suspended in set_value
WrittenThenSibling(before, after) ==
    /\ Succeeded(before) /\ before.op = "set_number" /\ IsPaired(before.key)
    /\ after.op = "set_number" /\ after.phase = "awaiting"
    /\ after.key \in SiblingsOf(before.key)

Opposite(key) == IF SelectorOf(key) = "minT" THEN "maxT" ELSE "minT"
StandIn(key) == IF SelectorOf(key) = "minT" THEN "absMax" ELSE "absMin"
FieldOrNone(key, f) == IF HasField(key, f) THEN FieldOf(key, f) ELSE NoneV

\* a proposed value that the range and step checks of the entry let through
PassesChecks(key, v) ==
    /\ IsNumber(v)
    /\ (IsNumber(MinOf(key)) /\ IsNumber(MaxOf(key)))
          => MinOf(key).n <= v.n /\ v.n <= MaxOf(key).n
    /\ (v.t = "float" /\ IsNumber(StepOf(key)) /\ StepOf(key).n # 0 /\ IsNumber(MinOf(key)))
          => OnGrid(key, v)

\* a validated write to a threshold entry that declares its device key
ThresholdWrite ==
    /\ Called("set_number") /\ HasKind(last.key, "number") /\ IsPaired(last.key)
    /\ "key" \in DOMAIN EntryOf(last.key)
    /\ HasRaw(last.key) /\ RawOf(last.key).t = "dict"
    /\ PassesChecks(last.key, last.value)

\* the write went out with sibling bound s, or was rejected for want of one
SentWith(s) ==
    IF s = NoneV THEN RejectedNoCall
    ELSE MadeCall([path |-> prefix \o DeviceKeyOf(last.key), type |-> "NUMBER",
                   value |-> PairOf(last.key, last.value, s)])

\* the first of the values that is not none
FirstGiven(values) ==
    IF \E i \in 1..Len(values) : values[i] # NoneV
    THEN values[CHOOSE i \in 1..Len(values) :
                    values[i] # NoneV /\ \A j \in 1..(i - 1) : values[j] = NoneV]
    ELSE NoneV

(* C26, as claimed: the sibling bound is the current value of the sibling  *)
(* mapping entry, otherwise the sibling field of the raw record, otherwise *)
(* absMin resp. absMax; the write is rejected only when all three give     *)
(* nothing, so a sibling entry over a record without the sibling field     *)
(* falls back to absMin/absMax.                                             *)
C26_FallbackChain ==
    ThresholdWrite =>
        SentWith(FirstGiven(<<
            IF SiblingsOf(last.key) # {}
            THEN FieldOrNone(last.key, Opposite(last.key)) ELSE NoneV,
            FieldOrNone(last.key, Opposite(last.key)),
            FieldOrNone(last.key, StandIn(last.key)) >>))

(* C26, amended: when a sibling mapping entry exists, the sibling bound is *)
(* that entry's current value and nothing else: if it is none the write is *)
(* rejected without a transport call. Only when no sibling mapping entry   *)
(* exists is the sibling field of the raw record used, and absMin resp.    *)
(* absMax when the record lacks that field; the write is rejected when     *)
(* this gives nothing.                                                      *)
C26_EntryThenRecord ==
    ThresholdWrite =>
        SentWith(IF SiblingsOf(last.key) # {}
                 THEN FieldOrNone(last.key, Opposite(last.key))
                 ELSE FirstGiven(<<FieldOrNone(last.key, Opposite(last.key)),
                                   FieldOrNone(last.key, StandIn(last.key))>>))

\* both thresholds are mapped, the record has no maxT but an absMax: a valid
\* write of the lower threshold is rejected
C26_Witness ==
    /\ ThresholdWrite /\ last.key = "ofa_ph_lower" /\ last.value = FloatV(620)
    /\ SiblingsOf("ofa_ph_lower") = {"ofa_ph_upper"}
    /\ ~HasField("ofa_ph_lower", "maxT") /\ HasField("ofa_ph_lower", "absMax")
    /\ RejectedNoCall

\* the sibling bound of the pair a threshold write submitted
SentSibling(step) ==
    step.calls[1].value.items[IF SelectorOf(step.key) = "minT" THEN 2 ELSE 1]

(* C27: the sibling entry chosen for a paired-bound write is a number      *)
(* entry with the opposite selector whose device key (its `key`, or its    *)
(* name when it has none) equals that of the written entry; an entry with  *)
(* the opposite selector but another device key is never chosen, also when *)
(* neither entry declares a `key`: the bound submitted is then the one of  *)
(* the written entry's own raw record.                                      *)
C27_SiblingSameDeviceKey ==
    (/\ Called("set_number") /\ HasKind(last.key, "number") /\ IsPaired(last.key)
     /\ HasRaw(last.key) /\ RawOf(last.key).t = "dict"
     /\ last.phase = "awaiting") =>
        IF SiblingsOf(last.key) # {}
        THEN \E k \in SiblingsOf(last.key) :
                SentSibling(last) = FieldOrNone(k, SelectorOf(k))
        ELSE SentSibling(last) =
                FirstGiven(<<FieldOrNone(last.key, Opposite(last.key)),
                             FieldOrNone(last.key, StandIn(last.key))>>)

\* the sibling bound of a threshold entry can be resolved (an entry that is
\* not a threshold needs none)
SiblingObtainable(key) ==
    IsPaired(key) =>
        IF SiblingsOf(key) # {}
        THEN \E k \in SiblingsOf(key) : FieldOrNone(k, SelectorOf(k)) # NoneV
        ELSE /\ RawOf(key).t = "dict"
             /\ FirstGiven(<<FieldOrNone(key, Opposite(key)),
                             FieldOrNone(key, StandIn(key))>>) # NoneV

\* no range check is possible / no step check is possible
NoRange(key) == MinOf(key) = NoneV \/ MaxOf(key) = NoneV
NoStep(key) == StepOf(key) = NoneV \/ (IsNumber(StepOf(key)) /\ StepOf(key).n = 0)

(* C28: set_number validates only against the bounds it can decode. For an *)
(* int or float value written to a number entry (the sibling bound of a    *)
(* threshold entry being obtainable): when the decoded minimum or maximum  *)
(* is none the value is never rejected for its range, when the resolution  *)
(* is none or zero it is never rejected for its step, and when both hold   *)
(* every such value is sent to the transport.                               *)
C28_OnlyDecodableBounds ==
    (/\ Called("set_number") /\ HasKind(last.key, "number") /\ HasRaw(last.key)
     /\ IsNumber(last.value) /\ SiblingObtainable(last.key)) =>
        /\ (NoRange(last.key) /\ (NoStep(last.key) \/ MinOf(last.key) = NoneV))
              => last.phase = "awaiting" /\ last.calls[1].type = "NUMBER"
        /\ (/\ NoRange(last.key) /\ IsNumber(MinOf(last.key))
            /\ IsNumber(StepOf(last.key)) /\ StepOf(last.key).n > 0)
              => (last.phase = "awaiting"
                    <=> (last.value.t = "float" => OnGrid(last.key, last.value)))
        /\ (NoStep(last.key) /\ Bounded(last.key))
              => (last.phase = "awaiting"
                    <=> (/\ MinOf(last.key).n <= last.value.n
                         /\ last.value.n <= MaxOf(last.key).n))

\* 9.0 has been sent to a number entry whose raw record has no bounds
C28_Witness ==
    /\ Called("set_number") /\ HasKind(last.key, "number") /\ ~IsPaired(last.key)
    /\ HasRaw(last.key) /\ RawOf(last.key).t = "dict"
    /\ ~HasField(last.key, "absMin") /\ ~HasField(last.key, "absMax")
    /\ last.value = FloatV(900)
    /\ MadeCall([path |-> prefix \o DeviceKeyOf(last.key), type |-> "NUMBER",
                 value |-> FloatV(900)])

\* a threshold entry of a pair over one raw record with numeric bounds and
\* a positive resolution, whose sibling has a value in the snapshot
PairOverRecord(key) ==
    /\ HasKind(key, "number") /\ IsPaired(key) /\ SiblingsOf(key) # {}
    /\ HasRaw(key) /\ NumericBounds(key) /\ FieldOf(key, "resolution").n > 0
    /\ HasField(key, Opposite(key)) /\ IsNumber(FieldOf(key, Opposite(key)))

\* the sibling's snapshot value lies inside the sibling's decoded range
SiblingInRange(key) ==
    \A k \in SiblingsOf(key) :
        /\ MinOf(k).n <= FieldOf(key, Opposite(key)).n
        /\ FieldOf(key, Opposite(key)).n <= MaxOf(k).n

(* C29: for a minT/maxT pair over one raw record with numeric absMin,      *)
(* absMax and a positive resolution, a write whose value passes the checks *)
(* of the written entry is submitted with the sibling's snapshot value     *)
(* whatever that value is; the pair [lo, hi] submitted satisfies           *)
(* lo <= absMax / 2 < hi whenever the sibling's snapshot value lies inside *)
(* the sibling's own decoded range.                                         *)
C29_PairAroundHalf ==
    (Called("set_number") /\ PairOverRecord(last.key) /\ IsNumber(last.value)) =>
        /\ PassesChecks(last.key, last.value) <=> last.phase = "awaiting"
        /\ last.phase = "awaiting" =>
              /\ SentSibling(last) = FieldOf(last.key, Opposite(last.key))
              /\ SiblingInRange(last.key) =>
                    /\ 2 * last.calls[1].value.items[1].n <= FieldOf(last.key, "absMax").n
                    /\ FieldOf(last.key, "absMax").n < 2 * last.calls[1].value.items[2].n

\* the upper threshold 6.0 of the snapshot lies below its range 7.1..14: the
\* write of the lower threshold 6.2 submits the inverted pair [6.2, 6.0]
C29_Witness ==
    /\ Called("set_number") /\ PairOverRecord(last.key) /\ ~SiblingInRange(last.key)
    /\ last.key = "ofa_ph_lower" /\ last.value = FloatV(620)
    /\ last.phase = "awaiting"
    /\ last.calls[1].value = ListV(<<FloatV(620), FloatV(600)>>)

\* what a keyed read of `key` returns on cache c
ReadIn(c, key) == __getitem__(c, key).value

\* the record of `key` in projection p, under group `kind`, has the fields
\* the kind requires, equal to the components of the keyed read `got`
RowAgrees(p, kind, key, got) ==
    /\ kind \in DOMAIN p /\ key \in DOMAIN p[kind]
    /\ CASE kind = "sensor" ->
               /\ got.t = "tuple" /\ Len(got.items) = 2
               /\ p[kind][key] = [value |-> got.items[1], unit |-> got.items[2]]
         [] kind = "number" ->
               /\ got.t = "tuple" /\ Len(got.items) = 5
               /\ p[kind][key] = [value |-> got.items[1], unit |-> got.items[2],
                                  min |-> got.items[3], max |-> got.items[4],
                                  step |-> got.items[5]]
         [] OTHER -> p[kind][key] = [value |-> got]

(* C30: the structured projection agrees with keyed reads in every         *)
(* reachable state, whatever the cache holds and whatever writes came      *)
(* before: a name appears in the projection, and then only under the kind  *)
(* of its mapping entry, exactly when a keyed read of it is not none; its  *)
(* record's fields equal the components of the keyed read's result; and    *)
(* building the projection leaves the read cache unchanged.                 *)
C30_ProjectionAgreesWithReads ==
    [][last'.op = "to_structured_dict" =>
          /\ cache' = cache
          /\ \A key \in MappingKeys :
                /\ (\E kind \in DOMAIN last'.result.d : key \in DOMAIN last'.result.d[kind])
                      <=> ReadIn(cache, key) # NoneV
                /\ \A kind \in DOMAIN last'.result.d :
                      key \in DOMAIN last'.result.d[kind] =>
                         /\ kind = KindOf(key)
                         /\ RowAgrees(last'.result.d, kind, key, ReadIn(cache, key))
          /\ \A kind \in DOMAIN last'.result.d :
                DOMAIN last'.result.d[kind] \subseteq MappingKeys]_vars

\* the projection was built while a number is cached and a write is pending
C30_Witness ==
    /\ last.op = "to_structured_dict"
    /\ \E key \in DOMAIN cache :
          /\ KindOf(key) = "number" /\ "number" \in DOMAIN last.result.d
          /\ key \in DOMAIN last.result.d["number"]
          /\ last.result.d["number"][key].min = cache[key].items[3]
          /\ IsNumber(cache[key].items[3])
    /\ pending # <<>>

====
